---- MODULE Spec2Model ----
(***************************************************************************)
(* Model of the EditorConfig indentation reconciler of src/src/api.ts:     *)
(* applyTextEditorOptions compares the desired indentation options with    *)
(* the live options of a text editor, asks the user, and writes the        *)
(* editor's options.  One run is a sequence of three synchronous segments, *)
(* separated by the two awaits of the function (the warning message and    *)
(* the settings update).  `effects` records, in order, what a run asks of  *)
(* the host: the prompt, the settings update, the re-indentation command,  *)
(* each write of an editor option, the re-read of insertSpaces and the     *)
(* error message.                                                          *)
(***************************************************************************)
EXTENDS Integers, Sequences, FiniteSets, TLC

\* ---------------------------------------------------------------- values
\* The number of distinct tab widths the model draws sizes from.
NumSizes == 2

\* Tab widths: 2, 4, ... (4 is the constant the code falls back to).
Sizes == {2 * i : i \in 1..NumSizes}

\* JavaScript `undefined` in a numeric option.
Undefined == 0 - 1

\* The string 'tabSize' in indentSize: "indent size follows the tab size".
SYMBOLIC_MATCH_TAB == 0 - 2

\* JavaScript `undefined` in the boolean option insertSpaces.
NoStyle == "undefined"

\* The constant of `workspaceOptions.tabSize ?? 4` and of the fallback chain.
DefaultTabSize == 4

\* a ?? b
Coalesce(a, b) == IF a # Undefined THEN a ELSE b

Range(s) == {s[i] : i \in 1..Len(s)}

\* TextEditorIndentationOptions: every field optional.
IndentationOptions ==
    [insertSpaces : {"true", "false", NoStyle},
     indentSize   : Sizes \cup {Undefined, SYMBOLIC_MATCH_TAB},
     tabSize      : Sizes \cup {Undefined}]

\* TextEditorResolvedIndentationOptions: what a correctly typed editor holds.
ResolvedIndentationOptions ==
    [insertSpaces : {"true", "false"}, indentSize : Sizes, tabSize : Sizes]

NoOptions == [insertSpaces |-> NoStyle, indentSize |-> Undefined, tabSize |-> Undefined]

\* The answers of the three-button warning message, or its dismissal.
Answers == {"Yes", "No", "Always Apply For Workspace", "dismissed"}

VARIABLES
    pc,               \* "idle", "prompt", "update", "done": where the run is
    editorOptions,    \* editor.options, the live state
    wsTabSize,        \* workspace setting editor.tabSize
    wsIndentSize,     \* workspace setting editor.indentSize
    detectIndentation,\* workspace setting editor.detectIndentation
    useTabSize,       \* workspace setting editor.useTabSize
    autoApply,        \* workspace setting editor.autoApply
    desired,          \* the newOptions argument as it was passed
    newOptions,       \* the newOptions object (line 120 assigns its tabSize)
    currentOptions,   \* the snapshot of the live state taken at line 85
    optionsToUpdate,  \* the diff
    shouldConvert,    \* the answer to the prompt
    effects           \* what the run has asked of the host, in order

vars == <<pc, editorOptions, wsTabSize, wsIndentSize, detectIndentation,
          useTabSize, autoApply, desired, newOptions, currentOptions,
          optionsToUpdate, shouldConvert, effects>>

settings == <<wsTabSize, wsIndentSize, detectIndentation, useTabSize>>

\* ------------------------------------------------------- pure functions
\* toTextEditorResolvedIndentationOptions throws unless the three options
\* have their types.
IsResolved(o) ==
    /\ o.insertSpaces \in {"true", "false"}
    /\ o.tabSize \notin {Undefined, SYMBOLIC_MATCH_TAB}
    /\ o.indentSize \notin {Undefined, SYMBOLIC_MATCH_TAB}

\* getWorkspaceIndentationSettings: {} when detectIndentation is on.
getWorkspaceIndentationSettings ==
    IF detectIndentation
    THEN [tabSize |-> Undefined, indentSize |-> Undefined]
    ELSE [tabSize |-> wsTabSize, indentSize |-> wsIndentSize]

isDeepStrictEqual(a, b) ==
    /\ a.insertSpaces = b.insertSpaces
    /\ a.indentSize = b.indentSize
    /\ a.tabSize = b.tabSize

\* lines 105-116
DiffInsertSpaces(new, cur) ==
    IF new.insertSpaces # NoStyle /\ new.insertSpaces # cur.insertSpaces
    THEN new.insertSpaces ELSE NoStyle

\* lines 119-121: indentSize 'tabSize' assigns newOptions.tabSize
ResolveSymbolic(new, ws) ==
    IF new.indentSize = SYMBOLIC_MATCH_TAB
    THEN [new EXCEPT !.tabSize = Coalesce(ws.tabSize, DefaultTabSize)]
    ELSE new

\* lines 118, 123-131
DiffIndentSize(new, cur) ==
    IF new.indentSize # Undefined /\ new.indentSize # cur.indentSize
    THEN new.indentSize ELSE Undefined

\* A tabSize diff that forgets the useTabSize policy.
DiffTabSizeUngated(new, uts) ==
    IF new.tabSize # Undefined THEN new.tabSize ELSE Undefined

\* lines 134-148
DiffTabSize(new, uts) ==
    IF new.tabSize # Undefined /\ uts THEN new.tabSize ELSE Undefined

\* lines 105-148: the diff of the (symbol-processed) new options
ComputeDiff(new, cur, uts) ==
    [insertSpaces |-> DiffInsertSpaces(new, cur),
     indentSize   |-> DiffIndentSize(new, cur),
     tabSize      |-> DiffTabSize(new, uts)]

\* lines 151-155
IsEmptyDiff(d) ==
    d.insertSpaces = NoStyle /\ d.indentSize = Undefined /\ d.tabSize = Undefined

\* lines 191-196
TabSizeFallback(d, new, ws) ==
    Coalesce(d.indentSize,
      Coalesce(new.indentSize,
        Coalesce(ws.indentSize,
          Coalesce(ws.tabSize, DefaultTabSize))))

\* ---------------------------------------------------------------- Init
\* One run of the reconciler: the editor's options as the host hands them out
\* (typed, so that lines 61-69 do not throw), any workspace settings.
Init ==
    /\ pc = "idle"
    /\ editorOptions \in ResolvedIndentationOptions
    /\ wsTabSize \in Sizes \cup {Undefined}
    /\ wsIndentSize \in Sizes \cup {Undefined, SYMBOLIC_MATCH_TAB}
    /\ detectIndentation \in BOOLEAN
    /\ useTabSize \in BOOLEAN
    /\ autoApply \in BOOLEAN
    /\ desired = NoOptions
    /\ newOptions = NoOptions
    /\ currentOptions = NoOptions
    /\ optionsToUpdate = NoOptions
    /\ shouldConvert = "none"
    /\ effects = <<>>

\* -------------------------------------------------------------- actions
\* lines 85-167: from the call to the first await.
applyTextEditorOptions(opts) ==
    /\ pc = "idle"
    /\ desired' = opts
    /\ shouldConvert' = "none"
    /\ UNCHANGED <<editorOptions, settings, autoApply>>
    /\ IF ~IsResolved(editorOptions)
       THEN \* lines 61-69 throw
            /\ pc' = "done"
            /\ effects' = <<"throw">>
            /\ newOptions' = opts
            /\ currentOptions' = NoOptions
            /\ optionsToUpdate' = NoOptions
       ELSE LET cur == editorOptions
                ws  == getWorkspaceIndentationSettings
            IN  /\ currentOptions' = cur
                /\ IF isDeepStrictEqual(opts, cur)
                   THEN /\ pc' = "done"
                        /\ effects' = <<>>
                        /\ newOptions' = opts
                        /\ optionsToUpdate' = NoOptions
                   ELSE LET new == ResolveSymbolic(opts, ws)
                            d   == ComputeDiff(new, cur, useTabSize)
                        IN  /\ newOptions' = new
                            /\ optionsToUpdate' = d
                            /\ IF IsEmptyDiff(d)
                               THEN pc' = "done" /\ effects' = <<>>
                               ELSE pc' = "prompt" /\ effects' = <<"prompt">>

\* lines 178-214: apply the diff.  styleTakes: whether the host reflects the
\* write of insertSpaces when it is read back at line 202.
ApplyChanges(styleTakes, before) ==
    LET d0 == optionsToUpdate
        ws == getWorkspaceIndentationSettings
        flip == d0.insertSpaces # NoStyle
        \* lines 187-197
        d1 == IF flip /\ d0.insertSpaces = "true" /\ d0.tabSize = Undefined
              THEN [d0 EXCEPT !.tabSize = TabSizeFallback(d0, newOptions, ws)]
              ELSE d0
        \* lines 180-198
        e1 == IF flip
              THEN [editorOptions EXCEPT
                      !.insertSpaces = IF styleTakes THEN d0.insertSpaces ELSE @,
                      !.tabSize = d1.tabSize]
              ELSE editorOptions
        f1 == IF flip
              THEN (IF d0.insertSpaces = "false" THEN <<"command">> ELSE <<>>)
                   \o <<"w_insertSpaces", "w_tabSize">>
              ELSE <<>>
        \* line 202
        failed == e1.insertSpaces # d1.insertSpaces
        \* lines 207-212
        e2 == [e1 EXCEPT
                 !.indentSize = IF d1.indentSize # Undefined THEN d1.indentSize ELSE @,
                 !.tabSize = IF d1.tabSize # Undefined THEN d1.indentSize ELSE @]
        f2 == (IF d1.indentSize # Undefined THEN <<"w_indentSize">> ELSE <<>>)
              \o (IF d1.tabSize # Undefined THEN <<"w_tabSize">> ELSE <<>>)
    IN  /\ optionsToUpdate' = d1
        /\ pc' = "done"
        /\ IF failed
           THEN /\ editorOptions' = e1
                /\ effects' = before \o f1 \o <<"reread", "error">>
           ELSE /\ editorOptions' = e2
                /\ effects' = before \o f1 \o <<"reread">> \o f2

\* Only 'No' counts as declining.
DeclinedOnlyNo(choice) == choice = "No"

\* No answer counts as declining.
DeclinedNever(choice) == FALSE

\* lines 168-172: anything but 'Yes' and 'Always Apply For Workspace', the
\* dismissal of the message included, ends the run.
Declined(choice) ==
    ~(choice = "Yes" \/ choice = "Always Apply For Workspace")

\* lines 162-176: the prompt is answered.
Answer(choice, styleTakes) ==
    /\ pc = "prompt"
    /\ shouldConvert' = choice
    /\ UNCHANGED <<settings, desired, newOptions, currentOptions>>
    /\ IF Declined(choice)
       THEN /\ pc' = "done"
            /\ UNCHANGED <<autoApply, editorOptions, optionsToUpdate, effects>>
       ELSE IF choice = "Always Apply For Workspace"
       THEN /\ pc' = "update"
            /\ autoApply' = TRUE
            /\ effects' = effects \o <<"updateAutoApply">>
            /\ UNCHANGED <<editorOptions, optionsToUpdate>>
       ELSE /\ ApplyChanges(styleTakes, effects)
            /\ UNCHANGED autoApply

\* The run ends after the settings update and applies nothing.
UpdateResolvedAppliesNothing(styleTakes) ==
    /\ pc = "update"
    /\ pc' = "done"
    /\ UNCHANGED <<settings, autoApply, desired, newOptions, currentOptions,
                   shouldConvert, editorOptions, optionsToUpdate, effects>>

\* line 175 resolves: the run goes on to apply the diff.
UpdateResolved(styleTakes) ==
    /\ pc = "update"
    /\ ApplyChanges(styleTakes, effects)
    /\ UNCHANGED <<settings, autoApply, desired, newOptions, currentOptions,
                   shouldConvert>>

\* ------------------------------------------- state of the other components
\* DocumentWatcher (src/src/DocumentWatcher.ts): the run above is the one
\* started for editor "A"; "B" is another editor the user may turn to.
VARIABLES
    activeTextEditor, \* window.activeTextEditor
    supersededAt,     \* Len(effects) when "B" became active; NotSuperseded before
    commandTargets    \* the editors the re-indentation commands acted on

watcherVars == <<activeTextEditor, supersededAt, commandTargets>>

NotSuperseded == 0 - 1

\* line 40: the watcher starts with the active editor's run.
WatcherInit ==
    /\ activeTextEditor = "A"
    /\ supersededAt = NotSuperseded
    /\ commandTargets = <<>>

\* The will-save handler and the pre-save pipeline of DocumentWatcher.
VARIABLES
    doc,              \* the document being saved: [eol, text]
    editorconfigSettings, \* what resolveEditorConfigFromFiles resolves with
    savePc,           \* "idle", "resolving", "resolved", "continued": the handler
    saveState,        \* "none", "waiting", "finalized": the host's save
    transformations,  \* the value of the promise given to e.waitUntil
    applied,          \* the edits the host applied with the save
    expired,          \* the host's window ended before the promise resolved
    saved,            \* the document as saved
    selections,       \* whether line 52 captured the active editor's selections
    selectionsRestored \* whether line 62 assigned them back

saveVars == <<doc, editorconfigSettings, savePc, saveState, transformations,
              applied, expired, saved, selections, selectionsRestored>>

\* The calls of the programmatic API (api.ts).
VARIABLES
    apiCall,          \* which function was called, "none" before
    apiInput,         \* its argument
    apiOutput         \* what it returned and reported

apiVars == <<apiCall, apiInput, apiOutput>>

NoDocument == [eol |-> "lf", text |-> <<>>]

NoSettings ==
    [end_of_line |-> "absent", trim_trailing_whitespace |-> "absent",
     insert_final_newline |-> "absent"]

NoTransformations == [edits |-> <<>>, log |-> <<>>, invoked |-> <<>>]

\* No save is going on.
SaveIdle ==
    /\ savePc = "idle"
    /\ saveState = "none"
    /\ transformations = NoTransformations
    /\ applied = <<>>
    /\ expired = FALSE
    /\ selections = FALSE
    /\ selectionsRestored = FALSE

SaveParked ==
    /\ doc = NoDocument
    /\ editorconfigSettings = NoSettings
    /\ saved = NoDocument
    /\ SaveIdle

ApiParked ==
    /\ apiCall = "none"
    /\ apiInput = "none"
    /\ apiOutput = "none"

\* A reconciler that is not called.
ReconcilerParked ==
    /\ pc = "idle"
    /\ editorOptions = [insertSpaces |-> "true", indentSize |-> DefaultTabSize,
                        tabSize |-> DefaultTabSize]
    /\ wsTabSize = DefaultTabSize
    /\ wsIndentSize = SYMBOLIC_MATCH_TAB
    /\ detectIndentation = FALSE
    /\ useTabSize = FALSE
    /\ autoApply = FALSE
    /\ desired = NoOptions
    /\ newOptions = NoOptions
    /\ currentOptions = NoOptions
    /\ optionsToUpdate = NoOptions
    /\ shouldConvert = "none"
    /\ effects = <<>>

otherVars == <<watcherVars, saveVars, apiVars>>

allVars == <<vars, otherVars>>

OthersInit == WatcherInit /\ SaveParked /\ ApiParked

\* The state a run starts from, every component included.
InitAll == Init /\ OthersInit

\* The reconciler on its own: one call of applyTextEditorOptions.
Next ==
    \/ \E opts \in IndentationOptions :
          applyTextEditorOptions(opts) /\ UNCHANGED otherVars
    \/ \E choice \in Answers, styleTakes \in BOOLEAN :
          Answer(choice, styleTakes) /\ UNCHANGED otherVars
    \/ \E styleTakes \in BOOLEAN :
          UpdateResolved(styleTakes) /\ UNCHANGED otherVars

Spec == InitAll /\ [][Next]_allVars

\* ------------------------------------------------------- DocumentWatcher
IsCommand(ev) == ev = "command"

\* lines 151-159: resolveEditorConfigOptions resolves with the desired
\* options and the handler calls applyTextEditorOptions with the editor it
\* was given, whichever editor is active by now.
handleChangeActiveTextEditor(opts) ==
    /\ applyTextEditorOptions(opts)
    /\ UNCHANGED <<watcherVars, saveVars, apiVars>>

\* lines 43-45: another editor becomes active; its handler starts a run of
\* its own and leaves the run of "A" as it is.
onDidChangeActiveTextEditor ==
    /\ activeTextEditor = "A"
    /\ activeTextEditor' = "B"
    /\ supersededAt' = Len(effects)
    /\ UNCHANGED <<vars, commandTargets, saveVars, apiVars>>

\* api.ts line 182: the command acts on the editor that is active when it is
\* executed.
CommandsExecuted ==
    /\ commandTargets' =
         IF Len(SelectSeq(effects', IsCommand)) > Len(SelectSeq(effects, IsCommand))
         THEN Append(commandTargets, activeTextEditor)
         ELSE commandTargets
    /\ UNCHANGED <<activeTextEditor, supersededAt, saveVars, apiVars>>

WatcherNext ==
    \/ \E opts \in IndentationOptions : handleChangeActiveTextEditor(opts)
    \/ onDidChangeActiveTextEditor
    \/ \E choice \in Answers, styleTakes \in BOOLEAN :
          Answer(choice, styleTakes) /\ CommandsExecuted
    \/ \E styleTakes \in BOOLEAN : UpdateResolved(styleTakes) /\ CommandsExecuted

\* The watcher: the run for "A" while the active editor may change.
SpecWatcher == InitAll /\ [][WatcherNext]_allVars

\* ------------------------------------------------- pre-save transformations
\* The longest document text of the model.
MaxLen == 3

\* A line break of the document, in whichever end-of-line it has.
NL == "\n"

\* A letter, a trailing-whitespace character (space or tab), a line break.
Chars == {"a", " ", NL}

Texts == UNION {[1..k -> Chars] : k \in 0..MaxLen}

Documents == [eol : {"lf", "crlf"}, text : Texts]

\* Each key: absent, a value of the expected type, or one of another type.
Settings ==
    [end_of_line : {"absent", "lf", "crlf", "bad"},
     trim_trailing_whitespace : {"absent", "true", "false", "bad"},
     insert_final_newline : {"absent", "true", "false", "bad"}]

NoEdits == [failed |-> FALSE, edits |-> <<>>]

Failure == [failed |-> TRUE, edits |-> <<>>]

Edits(es) == [failed |-> FALSE, edits |-> es]

\* Line-ending normalizer: rewrites the line terminators to end_of_line if it
\* is set; nothing if it is unset or the document already has it.
SetEndOfLine(cfg, d) ==
    CASE cfg.end_of_line = "bad" -> Failure
      [] cfg.end_of_line \in {"lf", "crlf"} /\ cfg.end_of_line # d.eol ->
            Edits(<<[kind |-> "setEndOfLine", from |-> 0, to |-> 0,
                     text |-> cfg.end_of_line]>>)
      [] OTHER -> NoEdits

\* Position k of the text is whitespace followed only by whitespace up to the
\* end of its line.
IsTrailing(text, k) ==
    \E e \in k..Len(text) :
        /\ \A m \in k..e : text[m] = " "
        /\ e = Len(text) \/ text[e + 1] = NL

\* The last position of the whitespace run that starts at k.
RunEnd(text, k) ==
    CHOOSE e \in k..Len(text) :
        /\ \A m \in k..e : text[m] = " "
        /\ e = Len(text) \/ text[e + 1] = NL

RECURSIVE TrimFrom(_, _)
TrimFrom(text, k) ==
    IF k > Len(text) THEN <<>>
    ELSE IF IsTrailing(text, k)
    THEN <<[kind |-> "delete", from |-> k - 1, to |-> RunEnd(text, k), text |-> ""]>>
         \o TrimFrom(text, RunEnd(text, k) + 1)
    ELSE TrimFrom(text, k + 1)

\* Trailing-whitespace trimmer: removes the runs of spaces and tabs at line
\* ends if trim_trailing_whitespace is true.
TrimTrailingWhitespace(cfg, d) ==
    CASE cfg.trim_trailing_whitespace = "bad" -> Failure
      [] cfg.trim_trailing_whitespace = "true" -> Edits(TrimFrom(d.text, 1))
      [] OTHER -> NoEdits

\* An inserter that does not look at how the document ends.
InsertFinalNewlineAlways(cfg, d) ==
    CASE cfg.insert_final_newline = "bad" -> Failure
      [] cfg.insert_final_newline = "true" /\ Len(d.text) > 0 ->
            Edits(<<[kind |-> "insert", from |-> Len(d.text), to |-> Len(d.text),
                     text |-> NL]>>)
      [] OTHER -> NoEdits

\* Final-newline inserter: appends one line terminator if insert_final_newline
\* is true, the document is not empty and does not end with one.
InsertFinalNewline(cfg, d) ==
    CASE cfg.insert_final_newline = "bad" -> Failure
      [] /\ cfg.insert_final_newline = "true"
         /\ Len(d.text) > 0
         /\ d.text[Len(d.text)] # NL ->
            Edits(<<[kind |-> "insert", from |-> Len(d.text), to |-> Len(d.text),
                     text |-> NL]>>)
      [] OTHER -> NoEdits

\* transformer.transform(editorconfigSettings, doc, reason)
Transform(name, cfg, d) ==
    CASE name = "SetEndOfLine" -> SetEndOfLine(cfg, d)
      [] name = "TrimTrailingWhitespace" -> TrimTrailingWhitespace(cfg, d)
      [] name = "InsertFinalNewline" -> InsertFinalNewline(cfg, d)

\* The inserter is given its turn before the trimmer.
preSaveTransformationsSwapped ==
    <<"SetEndOfLine", "InsertFinalNewline", "TrimTrailingWhitespace">>

\* DocumentWatcher.ts lines 29-33
preSaveTransformations ==
    <<"SetEndOfLine", "TrimTrailingWhitespace", "InsertFinalNewline">>

RECURSIVE FlatMapFrom(_, _, _, _)
\* lines 127-141: each transformer in turn; a failure is logged and gives no
\* edits, the others go on.
FlatMapFrom(ts, i, cfg, d) ==
    IF i > Len(ts) THEN NoTransformations
    ELSE LET r    == Transform(ts[i], cfg, d)
             rest == FlatMapFrom(ts, i + 1, cfg, d)
         IN  [edits   |-> (IF r.failed THEN <<>> ELSE r.edits) \o rest.edits,
              log     |-> (IF r.failed THEN <<ts[i]>> ELSE <<>>) \o rest.log,
              invoked |-> <<ts[i]>> \o rest.invoked]

\* A pipeline that returns nothing once a transformation has failed.
calculatePreSaveTransformationsAborting(cfg, d) ==
    LET r == FlatMapFrom(preSaveTransformations, 1, cfg, d)
    IN  IF r.log # <<>> THEN [r EXCEPT !.edits = <<>>] ELSE r

\* lines 112-143, after the settings have been resolved (an object is never
\* falsy, so line 121 does not return).
calculatePreSaveTransformations(cfg, d) ==
    FlatMapFrom(preSaveTransformations, 1, cfg, d)

\* The host applies a set of edits, all positions being those of the document
\* the edits were computed for.
Deleted(es, i) ==
    \E n \in 1..Len(es) : es[n].kind = "delete" /\ es[n].from < i /\ i <= es[n].to

Inserted(es, at) ==
    SelectSeq(es, LAMBDA ed : ed.kind = "insert" /\ ed.from = at)

RECURSIVE BuildFrom(_, _, _)
BuildFrom(text, es, i) ==
    LET ins == [n \in 1..Len(Inserted(es, i - 1)) |-> NL]
    IN  IF i > Len(text) THEN ins
        ELSE ins \o (IF Deleted(es, i) THEN <<>> ELSE <<text[i]>>)
                 \o BuildFrom(text, es, i + 1)

ApplyEdits(d, es) ==
    LET eols == SelectSeq(es, LAMBDA ed : ed.kind = "setEndOfLine")
    IN  [eol  |-> IF eols = <<>> THEN d.eol ELSE eols[Len(eols)].text,
         text |-> BuildFrom(d.text, es, 1)]

\* ------------------------------------------------------- the will-save hook
SaveInit ==
    /\ doc \in Documents
    /\ editorconfigSettings \in Settings
    /\ saved = doc
    /\ SaveIdle

\* One will-save event, every other component at rest.
SaveStart == ReconcilerParked /\ WatcherInit /\ ApiParked /\ SaveInit

\* lines 47-58: the handler up to its first await.  It notes the selections
\* of the active editor if the document is the active one, starts
\* calculatePreSaveTransformations (which awaits the resolution of the
\* settings) and hands the promise to e.waitUntil.
onWillSaveTextDocument(isActive) ==
    /\ savePc = "idle"
    /\ saveState = "none"
    /\ selections' = isActive
    /\ savePc' = "resolving"
    /\ saveState' = "waiting"
    /\ UNCHANGED <<doc, editorconfigSettings, transformations, applied, expired,
                   saved, selectionsRestored>>

\* lines 116-142: the settings are resolved and the edits computed; the
\* promise resolves with them.
ResolveCompletes ==
    /\ savePc = "resolving"
    /\ transformations' = calculatePreSaveTransformations(editorconfigSettings, doc)
    /\ savePc' = "resolved"
    /\ UNCHANGED <<doc, editorconfigSettings, saveState, applied, expired, saved,
                   selections, selectionsRestored>>

\* A handler that applies the edits itself once they are computed.
RestoreSelectionsAndEdits ==
    /\ savePc = "resolved"
    /\ savePc' = "continued"
    /\ selectionsRestored' = (selections /\ transformations.edits # <<>>)
    /\ saved' = IF saveState = "finalized" /\ expired
                THEN ApplyEdits(saved, transformations.edits) ELSE saved
    /\ UNCHANGED <<doc, editorconfigSettings, saveState, transformations, applied,
                   expired, selections>>

\* lines 59-64: after `await transformations` the handler assigns the noted
\* selections back if there were edits; it does not touch the text.
RestoreSelections ==
    /\ savePc = "resolved"
    /\ savePc' = "continued"
    /\ selectionsRestored' = (selections /\ transformations.edits # <<>>)
    /\ UNCHANGED <<doc, editorconfigSettings, saveState, transformations, applied,
                   expired, saved, selections>>

\* The host, as the will-save handshake has it: the promise has resolved
\* within the window, its edits are applied and the save is finalized.
HostApplies ==
    /\ saveState = "waiting"
    /\ savePc \in {"resolved", "continued"}
    /\ applied' = transformations.edits
    /\ saved' = ApplyEdits(doc, transformations.edits)
    /\ saveState' = "finalized"
    /\ UNCHANGED <<doc, editorconfigSettings, savePc, transformations, expired,
                   selections, selectionsRestored>>

\* The host: the window ends before the promise has resolved; the save is
\* finalized with no edits.
HostExpires ==
    /\ saveState = "waiting"
    /\ savePc = "resolving"
    /\ expired' = TRUE
    /\ applied' = <<>>
    /\ saved' = doc
    /\ saveState' = "finalized"
    /\ UNCHANGED <<doc, editorconfigSettings, savePc, transformations, selections,
                   selectionsRestored>>

notSaveVars == <<vars, watcherVars, apiVars>>

SaveNext ==
    \/ \E isActive \in BOOLEAN :
          onWillSaveTextDocument(isActive) /\ UNCHANGED notSaveVars
    \/ ResolveCompletes /\ UNCHANGED notSaveVars
    \/ RestoreSelections /\ UNCHANGED notSaveVars
    \/ HostApplies /\ UNCHANGED notSaveVars
    \/ HostExpires /\ UNCHANGED notSaveVars

\* The host's timer runs and the host acts on a resolved promise.
SpecSave ==
    /\ SaveStart
    /\ [][SaveNext]_allVars
    /\ WF_allVars(HostApplies /\ UNCHANGED notSaveVars)
    /\ WF_allVars(HostExpires /\ UNCHANGED notSaveVars)

\* ------------------------------------------------------------ api.ts
\* Configuration values.  A key the map does not have reads as undefined, the
\* same value the options use for a field without a value.
ConfigTab == 0 - 4            \* indent_size = 'tab'

ConfigUnset == 0 - 3          \* indent_size / tab_width = 'unset'

AutoSize == 0 - 5             \* tabSize = 'auto' of the host's TextEditorOptions

IndentStyles == {"space", "tab", "unset", "other", NoStyle}

KnownProps ==
    [indent_style : IndentStyles,
     indent_size  : Sizes \cup {ConfigTab, ConfigUnset, Undefined},
     tab_width    : Sizes \cup {ConfigUnset, Undefined}]

EmptyConfig ==
    [indent_style |-> NoStyle, indent_size |-> Undefined, tab_width |-> Undefined]

\* lines 304-316, with 'unset' falling into the default branch
fromEditorConfigStyleNoUnset(indent_style) ==
    CASE indent_style = "space" -> "true"
      [] indent_style = "tab"   -> "false"
      [] OTHER                  -> indent_style

\* lines 304-316
fromEditorConfigStyle(indent_style) ==
    CASE indent_style = "space" -> "true"
      [] indent_style = "tab"   -> "false"
      [] indent_style = "unset" -> NoStyle
      [] OTHER                  -> indent_style

\* lines 318-327
fromEditorConfigIndentSize(indent_size) ==
    CASE indent_size = ConfigTab   -> SYMBOLIC_MATCH_TAB
      [] indent_size = ConfigUnset -> Undefined
      [] OTHER                     -> indent_size

\* lines 329-335
fromEditorConfigTabSize(tab_width) ==
    CASE tab_width = ConfigUnset -> Undefined
      [] OTHER                   -> tab_width

fromEditorConfig(editorConfig) ==
    [insertSpaces |-> fromEditorConfigStyle(editorConfig.indent_style),
     indentSize   |-> fromEditorConfigIndentSize(editorConfig.indent_size),
     tabSize      |-> fromEditorConfigTabSize(editorConfig.tab_width)]

\* The host's TextEditorOptions, as toEditorConfig accepts them.
TextEditorOptions ==
    [insertSpaces : {"true", "false", "auto", NoStyle},
     indentSize   : Sizes \cup {SYMBOLIC_MATCH_TAB, Undefined},
     tabSize      : Sizes \cup {AutoSize, Undefined}]

\* line 368; parseInt(String(n), 10) of a whole number is that number
resolveTabSize(tabSize) == IF tabSize = AutoSize THEN DefaultTabSize ELSE tabSize

\* lines 349, 356: undefined is the only tabSize drawn that is not truthy
Truthy(tabSize) == tabSize # Undefined

\* lines 343-362
toEditorConfig(options) ==
    CASE options.insertSpaces = "true" ->
           [EmptyConfig EXCEPT
              !.indent_style = "space",
              !.indent_size  = IF Truthy(options.tabSize)
                               THEN resolveTabSize(options.tabSize) ELSE Undefined]
      [] options.insertSpaces \in {"false", "auto"} ->
           [EmptyConfig EXCEPT
              !.indent_style = "tab",
              !.tab_width    = IF Truthy(options.tabSize)
                               THEN resolveTabSize(options.tabSize) ELSE Undefined]
      [] OTHER -> EmptyConfig

\* Paths are sequences of segments; NoFile is the fileName / relativePath that
\* resolveFile leaves undefined.
NoFile == <<>>

UntitledName == <<"Untitled-1">>

FileNames == {<<"w", "a.txt">>, <<"x", "a.txt">>, UntitledName}

TextDocuments ==
    {d \in [languageId : {"Log", "plaintext"}, isUntitled : BOOLEAN,
            fileName : FileNames] : d.isUntitled <=> d.fileName = UntitledName}

WorkspaceFolders == {<<>>, <<(<<"w">>)>>, <<(<<"w">>), (<<"v">>)>>}

\* getFile anchoring an untitled document at the last workspace folder.
getFileLastRoot(d, workspaceFolders) ==
    IF ~d.isUntitled THEN d.fileName
    ELSE IF Len(workspaceFolders) > 0
         THEN workspaceFolders[Len(workspaceFolders)] \o d.fileName
    ELSE NoFile

\* lines 278-286
getFile(d, workspaceFolders) ==
    IF ~d.isUntitled THEN d.fileName
    ELSE IF Len(workspaceFolders) > 0 THEN workspaceFolders[1] \o d.fileName
    ELSE NoFile

\* line 275: the path with the workspace folder's name kept in front of it,
\* which in segments is the path itself
asRelativePath(file) == file

\* lines 265-287
resolveFile(d, workspaceFolders) ==
    IF d.languageId = "Log"
    THEN [fileName |-> NoFile, relativePath |-> NoFile]
    ELSE LET file == getFile(d, workspaceFolders)
         IN  [fileName |-> file,
              relativePath |-> IF file # NoFile THEN asRelativePath(file) ELSE NoFile]

Callback(name, relativePath) == [name |-> name, relativePath |-> relativePath]

\* Nothing returned or reported yet.
NoOutput ==
    [options |-> NoOptions, config |-> EmptyConfig, callbacks |-> <<>>,
     parsed |-> NoFile]

ApiInputs ==
    [cfg : KnownProps, options : {NoOptions}, doc : TextDocuments,
     workspaceFolders : WorkspaceFolders,
     onBeforeResolve : BOOLEAN, onEmptyConfig : BOOLEAN]
    \cup
    [cfg : {EmptyConfig}, options : TextEditorOptions,
     doc : {[languageId |-> "plaintext", isUntitled |-> FALSE,
             fileName |-> <<"w", "a.txt">>]},
     workspaceFolders : {<<>>},
     onBeforeResolve : {FALSE}, onEmptyConfig : {FALSE}]

ApiInit ==
    /\ apiCall = "ready"
    /\ apiInput \in ApiInputs
    /\ apiOutput = NoOutput

ApiStart == ReconcilerParked /\ WatcherInit /\ SaveParked /\ ApiInit

\* line 38: the test of an object, which holds of every object
IsTruthy(editorConfig) == editorConfig \in KnownProps

\* lines 38-47, with the resolved map and the callbacks made so far
resolveEditorConfigOptionsReturn(editorConfig, out) ==
    IF IsTruthy(editorConfig)
    THEN [out EXCEPT !.config = editorConfig,
                     !.options = fromEditorConfig(editorConfig)]
    ELSE LET rp == resolveFile(apiInput.doc, apiInput.workspaceFolders).relativePath
         IN  [out EXCEPT
                !.config = editorConfig,
                !.options = NoOptions,
                !.callbacks =
                    IF apiInput.onEmptyConfig /\ rp # NoFile
                    THEN Append(out.callbacks, Callback("onEmptyConfig", rp))
                    ELSE out.callbacks]

\* lines 17-30 and 246-261: the call, up to the await of editorconfig.parse,
\* or to the return when there is no file to parse for
resolveEditorConfigOptions ==
    /\ apiCall = "ready"
    /\ LET f == resolveFile(apiInput.doc, apiInput.workspaceFolders)
       IN  IF f.fileName = NoFile
           THEN /\ apiCall' = "resolveEditorConfigOptions"
                /\ apiOutput' = resolveEditorConfigOptionsReturn(EmptyConfig, apiOutput)
           ELSE /\ apiCall' = "parse"
                /\ apiOutput' =
                     [apiOutput EXCEPT
                        !.parsed = f.fileName,
                        !.callbacks =
                            IF f.relativePath # NoFile /\ apiInput.onBeforeResolve
                            THEN <<Callback("onBeforeResolve", f.relativePath)>>
                            ELSE <<>>]
    /\ UNCHANGED apiInput

\* lines 261-262 and 32-47: editorconfig.parse gives the file's properties
parseResolves ==
    /\ apiCall = "parse"
    /\ apiCall' = "resolveEditorConfigOptions"
    /\ apiOutput' = resolveEditorConfigOptionsReturn(apiInput.cfg, apiOutput)
    /\ UNCHANGED apiInput

\* A call of fromEditorConfig with the map drawn.
fromEditorConfigCall ==
    /\ apiCall = "ready"
    /\ apiCall' = "fromEditorConfig"
    /\ apiOutput' = [apiOutput EXCEPT !.options = fromEditorConfig(apiInput.cfg)]
    /\ UNCHANGED apiInput

\* A call of toEditorConfig with the options drawn.
toEditorConfigCall ==
    /\ apiCall = "ready"
    /\ apiCall' = "toEditorConfig"
    /\ apiOutput' = [apiOutput EXCEPT !.config = toEditorConfig(apiInput.options)]
    /\ UNCHANGED apiInput

notApiVars == <<vars, watcherVars, saveVars>>

ApiNext ==
    \/ resolveEditorConfigOptions /\ UNCHANGED notApiVars
    \/ parseResolves /\ UNCHANGED notApiVars
    \/ fromEditorConfigCall /\ UNCHANGED notApiVars
    \/ toEditorConfigCall /\ UNCHANGED notApiVars

SpecApi == ApiStart /\ [][ApiNext]_allVars

TypeOK ==
    /\ pc \in {"idle", "prompt", "update", "done"}
    /\ desired \in IndentationOptions
    /\ newOptions \in IndentationOptions
    /\ optionsToUpdate.insertSpaces \in {"true", "false", NoStyle}
    /\ shouldConvert \in Answers \cup {"none"}
    /\ autoApply \in BOOLEAN
    /\ Len(effects) <= 8

\* ------------------------------------------------- vocabulary of the claims
\* The run got past the read of the live state.
Ran == pc # "idle" /\ "throw" \notin Range(effects)

Finished == Ran /\ pc = "done"

Accepted == shouldConvert \in {"Yes", "Always Apply For Workspace"}

Positions(ev) == {i \in 1..Len(effects) : effects[i] = ev}

SizeWrites == Positions("w_indentSize") \cup Positions("w_tabSize")

OptionWrites == SizeWrites \cup Positions("w_insertSpaces")

\* No prompt, no bulk re-indentation, no write of an editor option.
NoSideEffects ==
    Positions("prompt") \cup Positions("command") \cup OptionWrites = {}

\* The effective tab width a symbolic indent size stands for.
EffectiveTabWidth == Coalesce(getWorkspaceIndentationSettings.tabSize, DefaultTabSize)

\* The desired intent after symbolic resolution, as the specification has it.
ResolvedDesired ==
    IF desired.indentSize = SYMBOLIC_MATCH_TAB
    THEN [desired EXCEPT !.indentSize = EffectiveTabWidth]
    ELSE desired

\* Every field the intent o defines equals the live field.
MatchesLive(o) ==
    /\ o.insertSpaces \in {NoStyle, currentOptions.insertSpaces}
    /\ o.indentSize \in {Undefined, currentOptions.indentSize}
    /\ o.tabSize \in {Undefined, currentOptions.tabSize}

\* The diff asks for a change of style.
StyleInDiff == optionsToUpdate.insertSpaces # NoStyle

\* C1: when every field the desired intent defines (after symbolic
\* resolution) equals the live field, the run shows no prompt, requests no
\* bulk re-indentation and writes no editor option.
C1_ReconcilerNoOp == (Ran /\ MatchesLive(ResolvedDesired)) => NoSideEffects

\* C2: when autoApply was already true as the run began, no prompt is shown.
\* (autoApply is only ever set by the run itself, after its prompt.)
C2_AutoApplySkipsPrompt ==
    (Ran /\ autoApply /\ Positions("updateAutoApply") = {})
        => Positions("prompt") = {}

\* The desired intent differs from the live state in tabSize, and in no
\* other field.
OnlyTabSizeDiffers ==
    /\ desired.tabSize \notin {Undefined, currentOptions.tabSize}
    /\ desired.insertSpaces \in {NoStyle, currentOptions.insertSpaces}
    /\ desired.indentSize \in {Undefined, currentOptions.indentSize}

\* The desired intent differs from the live state in tabSize and in style.
TabSizeAndStyleDiffer ==
    /\ desired.tabSize \notin {Undefined, currentOptions.tabSize}
    /\ desired.insertSpaces \notin {NoStyle, currentOptions.insertSpaces}

\* C3: with useTabSize = false, an intent that differs from the live state
\* only in tabSize causes no prompt, no bulk edit and no write; one that also
\* differs in insertSpaces has a non-empty diff and is prompted for.
C3_PolicyGating ==
    (Ran /\ ~useTabSize) =>
        /\ OnlyTabSizeDiffers => (NoSideEffects /\ IsEmptyDiff(optionsToUpdate))
        /\ TabSizeAndStyleDiffer => (StyleInDiff /\ Positions("prompt") # {})

C3_Witness ==
    /\ Finished /\ ~useTabSize /\ OnlyTabSizeDiffers
    /\ desired.insertSpaces # NoStyle /\ desired.indentSize # Undefined

\* C4: with useTabSize = false no run writes the editor's tabSize.
C4_NoTabSizeWriteWithoutPolicy == ~useTabSize => Positions("w_tabSize") = {}

\* C5: a symbolic desired indentSize is replaced by the effective tab width
\* before the comparison, so the value compared with the live indentSize and
\* the value written to the editor's indentSize are that number.
C5_SymbolicResolved ==
    (Ran /\ desired.indentSize = SYMBOLIC_MATCH_TAB) =>
        /\ newOptions.indentSize = EffectiveTabWidth
        /\ optionsToUpdate.indentSize # SYMBOLIC_MATCH_TAB
        /\ Positions("w_indentSize") # {} => editorOptions.indentSize = EffectiveTabWidth

\* C6: an accepted run whose diff flips insertSpaces requests the bulk
\* re-indentation exactly once, before every write of indentSize and tabSize.
C6_BulkEditOnceBeforeSizes ==
    (Finished /\ Accepted /\ StyleInDiff) =>
        /\ Cardinality(Positions("command")) = 1
        /\ \A i \in Positions("command"), j \in SizeWrites : i < j

\* C7: after an accepted run that ends without the error, every live field
\* of the diff holds its desired value.
C7_FieldsHoldDesired ==
    (Finished /\ Accepted /\ Positions("error") = {}) =>
        /\ StyleInDiff => editorOptions.insertSpaces = desired.insertSpaces
        /\ optionsToUpdate.indentSize # Undefined
              => editorOptions.indentSize = ResolvedDesired.indentSize
        /\ (useTabSize /\ desired.tabSize # Undefined)
              => editorOptions.tabSize = desired.tabSize

\* tabSize was not part of the diff computed by lines 134-148.
TabSizeNotInDiff == DiffTabSize(newOptions, useTabSize) = Undefined

\* C8: when an accepted run switches to spaces and tabSize is not part of the
\* diff, the editor's tabSize ends as the first defined value of the diff's
\* indentSize, the desired indentSize, the workspace indentSize, the workspace
\* tabSize and 4, and is not left undefined.
C8_FallbackTabSize ==
    (Finished /\ Accepted /\ Positions("error") = {}
       /\ optionsToUpdate.insertSpaces = "true" /\ TabSizeNotInDiff) =>
        /\ editorOptions.tabSize # Undefined
        /\ editorOptions.tabSize =
             TabSizeFallback([optionsToUpdate EXCEPT !.tabSize = Undefined],
                             newOptions, getWorkspaceIndentationSettings)

\* C9: a style flip that the re-read does not confirm ends in the error with
\* no write of indentSize or tabSize, and no run writes indentSize or tabSize
\* before the re-read.
C9_SizesOnlyAfterConfirmedStyle ==
    /\ (Finished /\ Accepted /\ StyleInDiff
          /\ editorOptions.insertSpaces # optionsToUpdate.insertSpaces)
         => (Positions("error") # {} /\ SizeWrites = {})
    /\ \A j \in SizeWrites : \E i \in Positions("reread") : i < j

\* C10: the error is shown only when insertSpaces was in the diff and the
\* live style differs from it after the flip; an accepted run whose diff has
\* only size fields shows no error and reaches the size writes.
C10_ErrorOnlyWhenUnconfirmed ==
    /\ Positions("error") # {} =>
         (StyleInDiff /\ editorOptions.insertSpaces # optionsToUpdate.insertSpaces)
    /\ (Finished /\ Accepted /\ ~StyleInDiff) =>
         (Positions("error") = {} /\ SizeWrites # {})
\* C11: when the prompt is answered with reject, or dismissed, the run ends
\* with the live options and autoApply unchanged and nothing further asked of
\* the host (no bulk re-indentation, no write).
C11_RejectChangesNothing ==
    [][(pc = "prompt" /\ shouldConvert' \in {"No", "dismissed"}) =>
          /\ pc' = "done"
          /\ editorOptions' = editorOptions
          /\ editorOptions' = currentOptions
          /\ autoApply' = autoApply
          /\ effects' = effects
          /\ effects' = <<"prompt">>]_vars

C11_Witness ==
    /\ Finished /\ shouldConvert = "dismissed" /\ StyleInDiff
    /\ editorOptions = currentOptions

\* C12: accept-and-remember sets autoApply before any editor option is written
\* or bulk edit requested, and then does to the editor, the diff and the host
\* what accept-once does from the same state; accept-once leaves autoApply as
\* it was.
C12_RememberThenAccept ==
    /\ [](\A i \in Positions("updateAutoApply") :
             /\ autoApply
             /\ \A j \in OptionWrites \cup Positions("command") : i < j)
    /\ [][(pc = "prompt" /\ shouldConvert' = "Always Apply For Workspace") =>
             (autoApply' /\ effects' = effects \o <<"updateAutoApply">>
                /\ editorOptions' = editorOptions)]_vars
    /\ [][pc = "update" =>
             \E styleTakes \in BOOLEAN : ApplyChanges(styleTakes, effects)]_vars
    /\ [][(pc = "prompt" /\ shouldConvert' = "Yes") =>
             (autoApply' = autoApply /\ Positions("updateAutoApply") = {})]_vars

C12_Witness ==
    /\ Finished /\ shouldConvert = "Always Apply For Workspace"
    /\ StyleInDiff /\ OptionWrites # {} /\ autoApply
\* C13: once another editor has become active, the run in flight for the
\* previously active editor applies nothing when it completes: no option
\* write and no bulk re-indentation command comes after the activation, and
\* no command acts on the newly active editor.
C13_SupersededAppliesNothing ==
    supersededAt # NotSuperseded =>
        /\ \A j \in OptionWrites \cup Positions("command") : j <= supersededAt
        /\ "B" \notin Range(commandTargets)
\* ------------------------------------------------------ claims of the save
PromiseResolved == savePc \in {"resolved", "continued"}

\* C14: the save of every will-save event is eventually finalized; when the
\* host's window ends before the settings are resolved the save applies no
\* edits; and nothing computed later changes the saved document.
C14_WillSaveNeverStalls ==
    /\ (saveState = "waiting") ~> (saveState = "finalized")
    /\ [](expired => (applied = <<>> /\ saved = doc))
    /\ [][saveState = "finalized" =>
            (saveState' = "finalized" /\ saved' = saved /\ applied' = applied)]_allVars

C14_Witness ==
    /\ expired /\ saveState = "finalized" /\ savePc = "continued"
    /\ transformations.edits # <<>> /\ saved = doc

\* What a transformation adds to the edit set: nothing when it fails.
Contribution(name) ==
    LET r == Transform(name, editorconfigSettings, doc)
    IN  IF r.failed THEN <<>> ELSE r.edits

EditKinds == {"setEndOfLine", "delete", "insert"}

\* C15: a transformation that reports failure contributes no edits and is
\* logged; the other transformations are still invoked and their edits are in
\* the returned edit set as they gave them; what is returned is always an
\* edit set.
C15_FailureIsolation ==
    PromiseResolved =>
        /\ transformations.invoked =
             <<"SetEndOfLine", "TrimTrailingWhitespace", "InsertFinalNewline">>
        /\ transformations.edits =
             Contribution("SetEndOfLine") \o Contribution("TrimTrailingWhitespace")
                \o Contribution("InsertFinalNewline")
        /\ \A name \in Range(preSaveTransformations) :
             Transform(name, editorconfigSettings, doc).failed
                <=> name \in Range(transformations.log)
        /\ \A i \in 1..Len(transformations.edits) :
             transformations.edits[i].kind \in EditKinds

C15_Witness ==
    /\ PromiseResolved
    /\ Transform("TrimTrailingWhitespace", editorconfigSettings, doc).failed
    /\ Contribution("SetEndOfLine") # <<>>
    /\ Contribution("InsertFinalNewline") # <<>>
    /\ Len(transformations.edits) = 2

HasTrailingWhitespace(text) == \E k \in 1..Len(text) : IsTrailing(text, k)

NumTrailing(text) == Cardinality({k \in 1..Len(text) : IsTrailing(text, k)})

MissingFinalNewline(text) == Len(text) > 0 /\ text[Len(text)] # NL

KindRank(kind) ==
    CASE kind = "setEndOfLine" -> 1 [] kind = "delete" -> 2 [] kind = "insert" -> 3

\* The case of the ordering property: trailing whitespace, no final newline,
\* both fixes asked for, and the edits applied with the save.
BothFixesApplied ==
    /\ saveState = "finalized" /\ ~expired
    /\ editorconfigSettings.trim_trailing_whitespace = "true"
    /\ editorconfigSettings.insert_final_newline = "true"
    /\ HasTrailingWhitespace(doc.text)
    /\ MissingFinalNewline(doc.text)

\* C16: the transformations run, and their edits are collected, in the order
\* line-ending normalizer, trimmer, final-newline inserter; for a document
\* with trailing whitespace and no final newline under settings asking for
\* both fixes, the saved text has no trailing whitespace on any line and ends
\* with exactly one appended line terminator.
C16_PipelineOrdering ==
    /\ PromiseResolved =>
         /\ transformations.invoked =
              <<"SetEndOfLine", "TrimTrailingWhitespace", "InsertFinalNewline">>
         /\ \A i, j \in 1..Len(transformations.edits) :
              i < j => KindRank(transformations.edits[i].kind)
                          <= KindRank(transformations.edits[j].kind)
    /\ BothFixesApplied =>
         /\ ~HasTrailingWhitespace(saved.text)
         /\ saved.text[Len(saved.text)] = NL
         /\ Len(saved.text) = Len(doc.text) - NumTrailing(doc.text) + 1
         /\ SubSeq(saved.text, 1, Len(saved.text) - 1)
              = SelectSeq([k \in 1..Len(doc.text) |->
                             IF IsTrailing(doc.text, k) THEN "" ELSE doc.text[k]],
                          LAMBDA c : c # "")

C16_Witness == BothFixesApplied /\ Len(doc.text) = MaxLen

\* C17: the pipeline run on the document its own edits produced, with the same
\* settings, returns no edits.
C17_PipelineIdempotent ==
    (saveState = "finalized" /\ ~expired) =>
        calculatePreSaveTransformations(editorconfigSettings, saved).edits = <<>>

C17_Witness ==
    /\ saveState = "finalized" /\ ~expired /\ Len(applied) >= 3
    /\ saved # doc
\* ------------------------------------------------------- claims of the api
Resolved == apiCall = "resolveEditorConfigOptions"

RelativePath == resolveFile(apiInput.doc, apiInput.workspaceFolders).relativePath

EmptyConfigReported ==
    Callback("onEmptyConfig", RelativePath) \in Range(apiOutput.callbacks)

\* C18: when the resolution for a document's path gives an empty property
\* map, resolveEditorConfigOptions calls onEmptyConfig with the relative path
\* and returns an empty intent; it does not make that call when the map found
\* is not empty.
C18_NoConfigReported ==
    Resolved =>
        /\ (/\ apiOutput.config = EmptyConfig
            /\ RelativePath # NoFile
            /\ apiInput.onEmptyConfig)
              => (EmptyConfigReported /\ apiOutput.options = NoOptions)
        /\ apiOutput.config # EmptyConfig => ~EmptyConfigReported

\* C19: fromEditorConfig gives, for every map: insertSpaces true / false /
\* undefined / undefined for indent_style space / tab / unset / absent and any
\* other value unchanged; indentSize SYMBOLIC_MATCH_TAB / undefined /
\* undefined / the number for indent_size tab / unset / absent / a number;
\* tabSize undefined / undefined / the number for tab_width unset / absent / a
\* number; each field depends on its own key only; the map is left as it was.
C19_MapperRules ==
    /\ [](apiCall = "fromEditorConfig" =>
            LET c == apiInput.cfg
                o == apiOutput.options
            IN  /\ c.indent_style = "space" => o.insertSpaces = "true"
                /\ c.indent_style = "tab" => o.insertSpaces = "false"
                /\ c.indent_style \in {"unset", NoStyle} => o.insertSpaces = NoStyle
                /\ c.indent_style \notin {"space", "tab", "unset", NoStyle}
                      => o.insertSpaces = c.indent_style
                /\ c.indent_size = ConfigTab => o.indentSize = SYMBOLIC_MATCH_TAB
                /\ c.indent_size \in {ConfigUnset, Undefined} => o.indentSize = Undefined
                /\ c.indent_size \in Sizes => o.indentSize = c.indent_size
                /\ c.tab_width \in {ConfigUnset, Undefined} => o.tabSize = Undefined
                /\ c.tab_width \in Sizes => o.tabSize = c.tab_width
                /\ \A c2 \in KnownProps :
                     LET o2 == fromEditorConfig(c2)
                     IN  /\ c2.indent_style = c.indent_style
                              => o2.insertSpaces = o.insertSpaces
                         /\ c2.indent_size = c.indent_size
                              => o2.indentSize = o.indentSize
                         /\ c2.tab_width = c.tab_width => o2.tabSize = o.tabSize)
    /\ [][apiCall' = "fromEditorConfig" => apiInput' = apiInput]_allVars

C19_Witness ==
    /\ apiCall = "fromEditorConfig"
    /\ apiInput.cfg.indent_style = "unset"
    /\ apiInput.cfg.indent_size = ConfigTab
    /\ apiInput.cfg.tab_width = ConfigUnset
    /\ apiOutput.options =
         [insertSpaces |-> NoStyle, indentSize |-> SYMBOLIC_MATCH_TAB,
          tabSize |-> Undefined]

\* C20: for every fully defined live state s, fromEditorConfig(toEditorConfig(s))
\* has the insertSpaces of s and, where it has an indentSize or a tabSize, that
\* of s; reconciling s against it gives an empty diff.
C20_RoundTrip ==
    (apiCall = "toEditorConfig" /\ apiInput.options \in ResolvedIndentationOptions) =>
        LET s == apiInput.options
            back == fromEditorConfig(apiOutput.config)
        IN  /\ back.insertSpaces = s.insertSpaces
            /\ back.indentSize # Undefined => back.indentSize = s.indentSize
            /\ back.tabSize # Undefined => back.tabSize = s.tabSize
            /\ \A uts \in BOOLEAN : IsEmptyDiff(ComputeDiff(back, s, uts))
\* The path editorconfig.parse was asked for is `path`, and the map it gave
\* for it is the one resolved.
ParsedAt(path) == apiOutput.parsed = path /\ apiOutput.config = apiInput.cfg

\* The parser was not asked, and the resolved map is the empty one.
NotParsed ==
    /\ apiOutput.parsed = NoFile
    /\ apiOutput.config = EmptyConfig
    /\ apiOutput.options = NoOptions

\* C21 (as stated): a titled document resolves against its own path, an
\* untitled one against the path made of the first workspace root and its
\* name when there is a root, and an untitled one without a root resolves to
\* the empty map without the parser being asked.
C21_PathResolution ==
    Resolved =>
        LET d == apiInput.doc
            roots == apiInput.workspaceFolders
        IN  /\ ~d.isUntitled => ParsedAt(d.fileName)
            /\ (d.isUntitled /\ Len(roots) > 0) => ParsedAt(roots[1] \o d.fileName)
            /\ (d.isUntitled /\ Len(roots) = 0) => NotParsed

\* C21 (amended): the same for every document whose language is not 'Log'; a
\* document of language 'Log', titled or not, resolves to the empty map
\* without the parser being asked; and the parser is only ever asked for a
\* path.
C21_PathResolutionExceptLog ==
    /\ Resolved =>
         LET d == apiInput.doc
             roots == apiInput.workspaceFolders
         IN  /\ d.languageId = "Log" => NotParsed
             /\ (d.languageId # "Log" /\ ~d.isUntitled) => ParsedAt(d.fileName)
             /\ (d.languageId # "Log" /\ d.isUntitled /\ Len(roots) > 0)
                   => ParsedAt(roots[1] \o d.fileName)
             /\ (d.isUntitled /\ Len(roots) = 0) => NotParsed
    /\ apiCall = "parse" => apiOutput.parsed # NoFile

C21_Witness ==
    /\ Resolved
    /\ apiInput.doc.isUntitled
    /\ apiInput.doc.languageId # "Log"
    /\ Len(apiInput.workspaceFolders) = 2
    /\ apiInput.cfg # EmptyConfig
    /\ ParsedAt(<<"w", "Untitled-1">>)
\* ------------------------------------------- consent of the reconciler
\* What a run may do to the editor and the workspace: option writes, the bulk
\* re-indentation, the write of autoApply.
Mutations == OptionWrites \cup Positions("command") \cup Positions("updateAutoApply")

\* autoApply was true before the run (the run itself sets it only with
\* "updateAutoApply").
AutoApplyAtStart == autoApply /\ Positions("updateAutoApply") = {}

Consent == Accepted \/ AutoApplyAtStart

\* C22: every option write, bulk re-indentation and write of autoApply of a
\* run comes after an accept decision of that run (accept-once,
\* accept-and-remember, or autoApply true beforehand) and after its prompt; a
\* run with an empty diff, or without such a decision, does none of them; a
\* run shows at most one prompt.
C22_ConsentBeforeMutation ==
    /\ [](/\ Mutations # {} =>
               /\ Consent
               /\ AutoApplyAtStart \/
                    \A j \in Mutations : \E i \in Positions("prompt") : i < j
          /\ (Ran /\ IsEmptyDiff(optionsToUpdate)) => effects = <<>>
          /\ ~Consent => Mutations = {}
          /\ Cardinality(Positions("prompt")) <= 1)
    /\ [][(pc # "idle" /\ effects' # effects) =>
             (shouldConvert' \in {"Yes", "Always Apply For Workspace"}
                \/ (autoApply /\ "updateAutoApply" \notin Range(effects)))]_vars

C22_Witness ==
    /\ Finished /\ shouldConvert = "Yes" /\ ~autoApply
    /\ Positions("command") # {} /\ SizeWrites # {}
    /\ Positions("prompt") = {1}
====
